---- MODULE Spec2Model ----
(***************************************************************************)
(* PyRTFPA: the dispatcher RTFPA (rtfpa.py), the per-subject engine        *)
(* RunningD (running_d.py) and the geometry of line_tools.py.              *)
(*                                                                         *)
(* Python floats are modelled as binary floating-point numbers             *)
(* [m |-> mantissa, e |-> exponent] of value m * 2^e, normalised so that   *)
(* 2^(MantBits-1) <= |m| < 2^MantBits (zero is [m |-> 0, e |-> 0]), and    *)
(* every operation rounds its exact result to nearest, ties to even, as    *)
(* IEEE-754 does.  The significand is narrower than binary64's 53 bits;    *)
(* the exponent is unbounded (no overflow, underflow or subnormals).       *)
(***************************************************************************)
EXTENDS Integers, Sequences, FiniteSets, TLC

(* ------------------------------ floats --------------------------------- *)

\* Width of the significand of the modelled float.
MantBits == 14

Pow2(k) == 2^k

Abs(i) == IF i < 0 THEN -i ELSE i

Sgn(i) == IF i < 0 THEN -1 ELSE IF i > 0 THEN 1 ELSE 0

BitLen4(n) == IF n >= 8 THEN 4 ELSE IF n >= 4 THEN 3 ELSE IF n >= 2 THEN 2 ELSE n

BitLen8(n) == IF n >= 16 THEN 4 + BitLen4(n \div 16) ELSE BitLen4(n)

BitLen16(n) == IF n >= 256 THEN 8 + BitLen8(n \div 256) ELSE BitLen8(n)

\* Number of bits of the natural number n < 2^31.
BitLen(n) == IF n >= 65536 THEN 16 + BitLen16(n \div 65536) ELSE BitLen16(n)

FZero == [m |-> 0, e |-> 0]

\* The significand q1 after rounding, renormalised when it reached 2^MantBits.
Carry(sg, q1, e) ==
  IF q1 = Pow2(MantBits)
  THEN [m |-> sg * Pow2(MantBits - 1), e |-> e + 1]
  ELSE [m |-> sg * q1, e |-> e]

\* Quotient q, remainder r and half the divisor h of the bits shifted out:
\* to nearest, ties to even.
RoundShift(sg, q, r, h, e) ==
  Carry(sg, IF r > h \/ (r = h /\ q % 2 = 1) THEN q + 1 ELSE q, e)

\* Round for n of k bits.
RoundTo(sg, n, e, k) ==
  IF k <= MantBits
  THEN [m |-> sg * n * Pow2(MantBits - k), e |-> e - (MantBits - k)]
  ELSE RoundShift(sg, n \div Pow2(k - MantBits), n % Pow2(k - MantBits),
                  Pow2(k - MantBits - 1), e + (k - MantBits))

\* The float nearest to sg * n * 2^e (n >= 0), ties to even.
Round(sg, n, e) == IF n = 0 \/ sg = 0 THEN FZero ELSE RoundTo(sg, n, e, BitLen(n))

RoundSigned(n, e) == Round(Sgn(n), Abs(n), e)

\* float(i) for an integer i, and the literal n * 2^e.
FromInt(i) == RoundSigned(i, 0)

Lit(n, e) == RoundSigned(n, e)

FNeg(a) == [m |-> -a.m, e |-> a.e]

\* hi + lo for hi.e - lo.e = d >= 0; lo is below a quarter of hi's last
\* place when d > MantBits + 2.
AddAligned(hi, lo, d) ==
  IF d > MantBits + 2 THEN hi ELSE RoundSigned(hi.m * Pow2(d) + lo.m, lo.e)

\* a + b
FAdd(a, b) ==
  IF a.m = 0 THEN b
  ELSE IF b.m = 0 THEN a
  ELSE IF a.e >= b.e THEN AddAligned(a, b, a.e - b.e)
  ELSE AddAligned(b, a, b.e - a.e)

\* a - b
FSub(a, b) == FAdd(a, FNeg(b))

\* a * b
FMul(a, b) == Round(Sgn(a.m) * Sgn(b.m), Abs(a.m) * Abs(b.m), a.e + b.e)

\* n / d rounded: the quotient with a sticky last bit.
DivRound(sg, n, d, e) == Round(sg, 2 * (n \div d) + (IF n % d = 0 THEN 0 ELSE 1), e)

\* a / b for b # 0 (the callers raise ZeroDivisionError themselves).
FDiv(a, b) ==
  IF a.m = 0 THEN FZero
  ELSE DivRound(Sgn(a.m) * Sgn(b.m), Abs(a.m) * Pow2(MantBits + 1), Abs(b.m),
                a.e - b.e - MantBits - 2)

RECURSIVE SqrtBits(_, _, _)
SqrtBits(n, res, bit) ==
  IF bit = 0 THEN res
  ELSE IF res + bit <= 46340 /\ (res + bit) * (res + bit) <= n
  THEN SqrtBits(n, res + bit, bit \div 2)
  ELSE SqrtBits(n, res, bit \div 2)

\* floor(sqrt(n)) for 0 <= n < 2^31.
ISqrt(n) == SqrtBits(n, 0, 32768)

\* The root s of n with a sticky last bit, rounded.
SqrtSticky(n, s, e) == Round(1, 2 * s + (IF s * s = n THEN 0 ELSE 1), e)

SqrtRound(n, e) == SqrtSticky(n, ISqrt(n), e)

\* math.sqrt(a) for a >= 0.
FSqrt(a) ==
  IF a.m = 0 THEN FZero
  ELSE IF a.e % 2 # 0 THEN SqrtRound(2 * a.m * 65536, ((a.e - 1) \div 2) - 9)
  ELSE SqrtRound(a.m * 65536, (a.e \div 2) - 9)

\* a < b and a <= b on floats (a == b is equality of the normalised records).
FLt(a, b) == FSub(a, b).m < 0

FLe(a, b) == FSub(a, b).m <= 0

\* max(a, b) and min(a, b)
FMax(a, b) == IF FLt(a, b) THEN b ELSE a

FMin(a, b) == IF FLt(b, a) THEN b ELSE a

RECURSIVE LogFracBits(_, _, _)
\* The first k bits of the fraction of log2(y / 2^(MantBits-1)), for
\* 2^(MantBits-1) <= y < 2^MantBits, by repeated squaring.
LogFracBits(y, k, acc) ==
  IF k = 0 THEN acc
  ELSE IF (y * y) \div Pow2(MantBits - 1) >= Pow2(MantBits)
  THEN LogFracBits((y * y) \div Pow2(MantBits), k - 1, 2 * acc + 1)
  ELSE LogFracBits((y * y) \div Pow2(MantBits - 1), k - 1, 2 * acc)

\* log10(2)
Log10Of2 == Lit(9864, -15)

\* math.log10(a) for a > 0.
FLog10(a) ==
  FMul(RoundSigned((a.e + MantBits - 1) * Pow2(MantBits) + LogFracBits(a.m, MantBits, 0),
                   -MantBits),
       Log10Of2)

(* ------------------- line_tools.py: Point3D, LineToolsRT --------------- *)

Point3D(px, py, pz) == [x |-> px, y |-> py, z |-> pz]

\* The point with integer coordinates (i, j, k).
Pt(i, j, k) == Point3D(FromInt(i), FromInt(j), FromInt(k))

\* a**2
Sq(a) == FMul(a, a)

Two == FromInt(2)

Four == FromInt(4)

One == FromInt(1)

\* Point3D.distance
distance(p1, p2) ==
  FSqrt(FAdd(FAdd(Sq(FSub(p1.x, p2.x)), Sq(FSub(p1.y, p2.y))), Sq(FSub(p1.z, p2.z))))

\* Point3D.xy_distance
xy_distance(p1, p2) ==
  FSqrt(FAdd(Sq(FSub(p1.x, p2.x)), Sq(FSub(p1.y, p2.y))))

\* The point P1 + t * (dx, dy, dz) of the parameterised line.
PointAt(p1, t, dx, dy, dz) ==
  Point3D(FAdd(p1.x, FMul(t, dx)), FAdd(p1.y, FMul(t, dy)), FAdd(p1.z, FMul(t, dz)))

\* What line_sphere_intersect returns: None, a list of points, or the
\* exception it raises.
NoneResult == [kind |-> "None", pts |-> <<>>]

ListResult(ps) == [kind |-> "list", pts |-> ps]

RaiseResult == [kind |-> "ZeroDivisionError", pts |-> <<>>]

\* The coefficients of a t^2 + b t + c = 0.
QuadA(dx, dy, dz) == FAdd(FAdd(Sq(dx), Sq(dy)), Sq(dz))

QuadB(p1, sc, dx, dy, dz) ==
  FMul(Two, FAdd(FAdd(FMul(dx, FSub(p1.x, sc.x)), FMul(dy, FSub(p1.y, sc.y))),
                 FMul(dz, FSub(p1.z, sc.z))))

QuadC(p1, sc, sphere_radius) ==
  FSub(FSub(FAdd(FAdd(FAdd(FAdd(FAdd(Sq(sc.x), Sq(sc.y)), Sq(sc.z)), Sq(p1.x)), Sq(p1.y)),
                 Sq(p1.z)),
            FMul(Two, FAdd(FAdd(FMul(sc.x, p1.x), FMul(sc.y, p1.y)), FMul(sc.z, p1.z)))),
       Sq(sphere_radius))

\* max(0.0, min(1.0, t))
Clamp01(t) == FMax(FZero, FMin(One, t))

\* A variant of KeepIfInside that appends every point.
KeepAlways(sc, sphere_radius, constrain_to_segment, point) == <<point>>

\* The point is appended unless the segment is constrained and the point is
\* farther from the center than the radius.
KeepIfInside(sc, sphere_radius, constrain_to_segment, point) ==
  IF constrain_to_segment /\ FLt(sphere_radius, distance(point, sc))
  THEN <<>> ELSE <<point>>

\* One pass of the loop over [t1, t2].
KeepPoint(p1, sc, sphere_radius, constrain_to_segment, dx, dy, dz, t) ==
  IF ~constrain_to_segment \/ (FLe(FZero, t) /\ FLe(t, One))
  THEN KeepIfInside(sc, sphere_radius, constrain_to_segment, PointAt(p1, t, dx, dy, dz))
  ELSE <<>>

\* A variant of ResultsOrNone that returns the list even when it is empty.
ResultsEvenIfEmpty(results) == ListResult(results)

\* return results if results else None
ResultsOrNone(results) == IF results = <<>> THEN NoneResult ELSE ListResult(results)

\* The positive-discriminant branch, from the two roots t1 and t2.
TwoRoots(p1, sc, sphere_radius, constrain_to_segment, dx, dy, dz, t1, t2) ==
  ResultsOrNone(
    KeepPoint(p1, sc, sphere_radius, constrain_to_segment, dx, dy, dz,
              IF constrain_to_segment THEN Clamp01(t1) ELSE t1)
    \o KeepPoint(p1, sc, sphere_radius, constrain_to_segment, dx, dy, dz,
                 IF constrain_to_segment THEN Clamp01(t2) ELSE t2))

\* The tangent branch, from t = -b / (2a).
Tangent(p1, constrain_to_segment, dx, dy, dz, t) ==
  IF constrain_to_segment /\ (FLt(t, FZero) \/ FLt(One, t))
  THEN NoneResult
  ELSE ListResult(<<PointAt(p1, t, dx, dy, dz)>>)

\* The branches on the discriminant; dividing by 2a = 0 raises.
ByDiscriminant(p1, sc, sphere_radius, constrain_to_segment, dx, dy, dz, a, b, discriminant) ==
  IF FLt(discriminant, FZero) THEN NoneResult
  ELSE IF FMul(Two, a) = FZero THEN RaiseResult
  ELSE IF discriminant = FZero
  THEN Tangent(p1, constrain_to_segment, dx, dy, dz, FDiv(FNeg(b), FMul(Two, a)))
  ELSE TwoRoots(p1, sc, sphere_radius, constrain_to_segment, dx, dy, dz,
                FDiv(FAdd(FNeg(b), FSqrt(discriminant)), FMul(Two, a)),
                FDiv(FSub(FNeg(b), FSqrt(discriminant)), FMul(Two, a)))

Quadratic(p1, sc, sphere_radius, constrain_to_segment, dx, dy, dz, a, b, c) ==
  ByDiscriminant(p1, sc, sphere_radius, constrain_to_segment, dx, dy, dz, a, b,
                 FSub(Sq(b), FMul(FMul(Four, a), c)))

Direction(p1, sc, sphere_radius, constrain_to_segment, dx, dy, dz) ==
  Quadratic(p1, sc, sphere_radius, constrain_to_segment, dx, dy, dz,
            QuadA(dx, dy, dz), QuadB(p1, sc, dx, dy, dz), QuadC(p1, sc, sphere_radius))

\* LineToolsRT.line_sphere_intersect
line_sphere_intersect(line_point1, line_point2, sphere_center, sphere_radius, constrain_to_segment) ==
  Direction(line_point1, sphere_center, sphere_radius, constrain_to_segment,
            FSub(line_point2.x, line_point1.x), FSub(line_point2.y, line_point1.y),
            FSub(line_point2.z, line_point1.z))

(* ----------------------- running_d.py: RunningD ------------------------ *)

\* An unset slot (None) of a sphere-center list, and a set one.
NoCenter == [set |-> FALSE, p |-> Point3D(FZero, FZero, FZero)]

Center(pt) == [set |-> TRUE, p |-> pt]

\* RunningD(subject_id, position, start_timestamp, min_multiplier,
\* max_multiplier): the dataclass defaults followed by __post_init__.
RunningD(subject_id, position, start_timestamp, min_mul, max_mul) ==
  [subject_id        |-> subject_id,
   position          |-> position,
   start_timestamp   |-> start_timestamp,
   min_multiplier    |-> min_mul,
   max_multiplier    |-> max_mul,
   min_sphere_center |-> <<Center(position), NoCenter, NoCenter, NoCenter>>,
   max_sphere_center |-> <<Center(position), NoCenter, NoCenter, NoCenter>>,
   min_path_length   |-> <<FZero, FZero, FZero, FZero>>,
   max_path_length   |-> <<FZero, FZero, FZero, FZero>>,
   real_path_length  |-> FZero,
   number_of_steps   |-> 0,
   min_step_size     |-> FZero,
   max_step_size     |-> FZero,
   mean_step_size    |-> FZero,
   velocity_mode     |-> FALSE,
   end_timestamp     |-> start_timestamp,
   step_time         |-> FZero,
   min_step_velocity |-> FZero,
   max_step_velocity |-> FZero,
   D                 |-> FZero]

\* Hops of one calculate_path_length call that are followed before the walk
\* is given up as "undecided".
MaxIter == 40

\* What a walk hands back: the two lists and how the call ended.
Walked(centers, lengths, out) == [centers |-> centers, lengths |-> lengths, out |-> out]

\* The intersection point closer to new_point (d1 is inf for a single point).
Closer(pts, new_point) ==
  IF Len(pts) > 1 /\ ~FLt(distance(pts[1], new_point), distance(pts[2], new_point))
  THEN pts[2] ELSE pts[1]

RECURSIVE WalkLoop(_, _, _, _, _, _, _, _)

\* One hop per index and call: the hop is credited and the index left,
\* however far the chosen point is from the new point.
WalkMoveOnce(centers, scale, lengths, new_point, constrain_to_plane, i, total, fuel, chosen) ==
  WalkLoop([centers EXCEPT ![i] = Center(chosen)], scale,
           [lengths EXCEPT ![i] = FAdd(@, total)],
           new_point, constrain_to_plane, i + 1, FZero, fuel - 1)

\* The hop to the chosen point, total being running_total + scale.  A hop
\* that leaves the anchor where it was and farther than scale from the new
\* point is repeated forever: "hang".
WalkMove(centers, scale, lengths, new_point, constrain_to_plane, i, total, fuel, chosen) ==
  IF FLe(distance(chosen, new_point), scale)
  THEN WalkLoop([centers EXCEPT ![i] = Center(chosen)], scale,
                [lengths EXCEPT ![i] = FAdd(@, total)],
                new_point, constrain_to_plane, i + 1, FZero, fuel - 1)
  ELSE IF Center(chosen) = centers[i]
  THEN Walked(centers, lengths, "hang")
  ELSE WalkLoop([centers EXCEPT ![i] = Center(chosen)], scale, lengths,
                new_point, constrain_to_plane, i, total, fuel - 1)

\* After the intersection call.
WalkHop(centers, scale, lengths, new_point, constrain_to_plane, i, running_total, fuel, intersect_points) ==
  IF intersect_points.kind = "ZeroDivisionError"
  THEN Walked(centers, lengths, "ZeroDivisionError")
  ELSE IF intersect_points.kind = "None"
  THEN WalkLoop(centers, scale, lengths, new_point, constrain_to_plane, i + 1,
                running_total, fuel)
  ELSE WalkMove(centers, scale, lengths, new_point, constrain_to_plane, i,
                FAdd(running_total, scale), fuel, Closer(intersect_points.pts, new_point))

\* From the (possibly flattened) sphere center of index i.
WalkFrom(centers, scale, lengths, new_point, constrain_to_plane, i, running_total, fuel, sphere_center) ==
  IF FLt(distance(sphere_center, new_point), scale)
  THEN WalkLoop(centers, scale, lengths, new_point, constrain_to_plane, i + 1,
                running_total, fuel)
  ELSE WalkHop(centers, scale, lengths, new_point, constrain_to_plane, i, running_total, fuel,
               line_sphere_intersect(sphere_center, new_point, sphere_center, scale, TRUE))

\* The while loop of RunningD.calculate_path_length at index i (1-based)
\* with the local running_total.
WalkLoop(centers, scale, lengths, new_point, constrain_to_plane, i, running_total, fuel) ==
  IF i > 4 THEN Walked(centers, lengths, "ok")
  ELSE IF ~centers[i].set THEN Walked(centers, lengths, "ok")
  ELSE IF FLe(scale, FZero)
  THEN WalkLoop(centers, scale, lengths, new_point, constrain_to_plane, i + 1,
                running_total, fuel)
  ELSE IF fuel = 0 THEN Walked(centers, lengths, "undecided")
  ELSE WalkFrom(centers, scale, lengths, new_point, constrain_to_plane, i, running_total, fuel,
                IF constrain_to_plane
                THEN Point3D(centers[i].p.x, centers[i].p.y, FZero)
                ELSE centers[i].p)

\* RunningD.calculate_path_length
calculate_path_length(sphere_center_list, scale, path_length_list, new_point, constrain_to_plane) ==
  WalkLoop(sphere_center_list, scale, path_length_list, new_point, constrain_to_plane,
           1, FZero, MaxIter)

\* The slope alone, without the "1.0 -".
FdFromLogsSlopeOnly(log_length_diff, log_scale_diff) ==
  IF log_scale_diff # FZero
  THEN <<FDiv(log_length_diff, log_scale_diff)>>
  ELSE <<>>

\* The estimate with 1.0 for a scale difference of 0.
FdFromLogsOrOne(log_length_diff, log_scale_diff) ==
  IF log_scale_diff # FZero
  THEN <<FSub(One, FDiv(log_length_diff, log_scale_diff))>>
  ELSE <<One>>

\* 1.0 - (log_length_diff / log_scale_diff), or nothing when the scale
\* difference is 0.
FdFromLogs(log_length_diff, log_scale_diff) ==
  IF log_scale_diff # FZero
  THEN <<FSub(One, FDiv(log_length_diff, log_scale_diff))>>
  ELSE <<>>

\* The estimate of one index without the tests on the scales.
FdOfAnyScale(min_len, max_len, min_scale, max_scale) ==
  IF FLt(FZero, min_len) /\ FLt(FZero, max_len)
  THEN FdFromLogs(FSub(FLog10(min_len), FLog10(max_len)),
                  FSub(FLog10(min_scale), FLog10(max_scale)))
  ELSE <<>>

\* The estimate of one index in RunningD.fractal, as a list of at most one
\* float (empty when the index is skipped).
FdOf(min_len, max_len, min_scale, max_scale) ==
  IF FLt(FZero, min_len) /\ FLt(FZero, max_len) /\ FLt(FZero, min_scale) /\ FLt(FZero, max_scale)
  THEN FdFromLogs(FSub(FLog10(min_len), FLog10(max_len)),
                  FSub(FLog10(min_scale), FLog10(max_scale)))
  ELSE <<>>

\* The list fractal_dimensions of RunningD.fractal.
FractalDimensions(rd, min_scale, max_scale) ==
  FdOf(rd.min_path_length[1], rd.max_path_length[1], min_scale, max_scale) \o
  FdOf(rd.min_path_length[2], rd.max_path_length[2], min_scale, max_scale) \o
  FdOf(rd.min_path_length[3], rd.max_path_length[3], min_scale, max_scale) \o
  FdOf(rd.min_path_length[4], rd.max_path_length[4], min_scale, max_scale)

RECURSIVE FSum(_)
\* sum(fractal_dimensions)
FSum(fs) == IF fs = <<>> THEN FZero ELSE FAdd(FSum(SubSeq(fs, 1, Len(fs) - 1)), fs[Len(fs)])

\* What a method of RunningD leaves: the object and how the call ended
\* ("ok": it returned).
Ended(rd, out) == [rd |-> rd, out |-> out]

\* The mean of the estimates, D left as it was when there is none.
MeanDOrUnchanged(rd, fractal_dimensions) ==
  IF fractal_dimensions # <<>>
  THEN Ended([rd EXCEPT !.D = FDiv(FSum(fractal_dimensions),
                                  FromInt(Len(fractal_dimensions)))], "ok")
  ELSE Ended(rd, "ok")

\* The mean of the estimates, or 0.0.
MeanD(rd, fractal_dimensions) ==
  IF fractal_dimensions # <<>>
  THEN Ended([rd EXCEPT !.D = FDiv(FSum(fractal_dimensions),
                                  FromInt(Len(fractal_dimensions)))], "ok")
  ELSE Ended([rd EXCEPT !.D = FZero], "ok")

\* After the walk of the max lists.
AfterMaxWalk(rd, min_scale, max_scale, w) ==
  IF w.out # "ok"
  THEN Ended([rd EXCEPT !.max_sphere_center = w.centers, !.max_path_length = w.lengths], w.out)
  ELSE MeanD([rd EXCEPT !.max_sphere_center = w.centers, !.max_path_length = w.lengths],
             FractalDimensions([rd EXCEPT !.max_path_length = w.lengths], min_scale, max_scale))

\* After the walk of the min lists.
AfterMinWalk(rd, constrain_to_plane, new_point, min_scale, max_scale, w) ==
  IF w.out # "ok"
  THEN Ended([rd EXCEPT !.min_sphere_center = w.centers, !.min_path_length = w.lengths], w.out)
  ELSE AfterMaxWalk([rd EXCEPT !.min_sphere_center = w.centers, !.min_path_length = w.lengths],
                    min_scale, max_scale,
                    calculate_path_length(rd.max_sphere_center, max_scale, rd.max_path_length,
                                          new_point, constrain_to_plane))

\* RunningD.fractal from the chosen scales.
FractalAt(rd, constrain_to_plane, new_point, min_scale, max_scale) ==
  AfterMinWalk(rd, constrain_to_plane, new_point, min_scale, max_scale,
               calculate_path_length(rd.min_sphere_center, min_scale, rd.min_path_length,
                                     new_point, constrain_to_plane))

\* fractal() measuring with the step sizes whatever use_velocity says.
fractal_with_step_sizes(rd, constrain_to_plane, use_velocity) ==
  FractalAt(rd, constrain_to_plane,
            Point3D(rd.position.x, rd.position.y,
                    IF constrain_to_plane THEN FZero ELSE rd.position.z),
            rd.min_step_size, rd.max_step_size)

\* RunningD.fractal
fractal(rd, constrain_to_plane, use_velocity) ==
  FractalAt(rd, constrain_to_plane,
            Point3D(rd.position.x, rd.position.y,
                    IF constrain_to_plane THEN FZero ELSE rd.position.z),
            IF use_velocity THEN rd.min_step_velocity ELSE rd.min_step_size,
            IF use_velocity THEN rd.max_step_velocity ELSE rd.max_step_size)

\* The first unset slot of the sphere-center lists is filled with the position.
FillCenter(rd) ==
  IF \E i \in 1..4 : ~rd.min_sphere_center[i].set
  THEN LET i == CHOOSE j \in 1..4 : ~rd.min_sphere_center[j].set
                                    /\ \A k \in 1..(j - 1) : rd.min_sphere_center[k].set
       IN [rd EXCEPT !.min_sphere_center[i] = Center(rd.position),
                     !.max_sphere_center[i] = Center(rd.position)]
  ELSE rd

\* add_point from the step sizes on.
AddPointSizes(rd, point, constrain_to_plane) ==
  fractal(FillCenter([rd EXCEPT !.min_step_size = FMul(rd.mean_step_size, rd.min_multiplier),
                                !.max_step_size = FMul(rd.mean_step_size, rd.max_multiplier),
                                !.position = point]),
          constrain_to_plane, rd.velocity_mode)

\* add_point at the velocity-mode division.
AddPointVelocity(rd, point, constrain_to_plane) ==
  IF ~rd.velocity_mode THEN AddPointSizes(rd, point, constrain_to_plane)
  ELSE IF rd.step_time = FZero THEN Ended(rd, "ZeroDivisionError")
  ELSE AddPointSizes([rd EXCEPT !.mean_step_size = FDiv(@, rd.step_time)],
                     point, constrain_to_plane)

\* add_point from the mean step size on, dividing by the number of points.
AddPointMeanPerPoint(rd, point, timestamp, constrain_to_plane) ==
  AddPointVelocity([rd EXCEPT !.mean_step_size =
                                FDiv(rd.real_path_length, FromInt(rd.number_of_steps + 1)),
                              !.step_time = FromInt(timestamp - rd.end_timestamp),
                              !.end_timestamp = timestamp],
                   point, constrain_to_plane)

\* add_point from the mean step size on; rd has the new count and length.
AddPointMean(rd, point, timestamp, constrain_to_plane) ==
  AddPointVelocity([rd EXCEPT !.mean_step_size =
                                FDiv(rd.real_path_length, FromInt(rd.number_of_steps)),
                              !.step_time = FromInt(timestamp - rd.end_timestamp),
                              !.end_timestamp = timestamp],
                   point, constrain_to_plane)

\* RunningD.add_point; timestamps are whole seconds.
add_point(rd, point, timestamp, constrain_to_plane) ==
  AddPointMean([rd EXCEPT !.number_of_steps = @ + 1,
                          !.real_path_length =
                            FAdd(@, IF constrain_to_plane
                                    THEN distance(Point3D(rd.position.x, rd.position.y, FZero),
                                                  Point3D(point.x, point.y, FZero))
                                    ELSE distance(rd.position, point))],
               point, timestamp, constrain_to_plane)

(* --------------------------- rtfpa.py: RTFPA --------------------------- *)

\* The subject ids, points and timestamps (whole seconds) of the readings.
Subjects == {"s1", "s2"}

Points == {Pt(0, 0, 0), Pt(0, 0, 5), Pt(3, 4, 0)}

Times == {0, 30, 90}

\* The (min_mul, max_mul) arguments the dispatcher is constructed with.
MulPairs == {<<Lit(1, -1), FromInt(1)>>, <<FZero, FromInt(1)>>, <<FromInt(1), FromInt(-1)>>}

\* The arguments of set_timeout.
Timeouts == {30, 60}

\* Calls made on the dispatcher in one run.
MaxCalls == 3

VARIABLES
  min_multiplier,            \* RTFPA.min_multiplier
  max_multiplier,            \* RTFPA.max_multiplier
  velocity_mode,             \* RTFPA.velocity_mode
  seconds_till_new_path,     \* RTFPA.seconds_till_new_path
  constrain_to_plane,        \* RTFPA.constrain_to_plane
  tracked_objects_running_d, \* subject_id -> reference into heap, 0: not a key
  heap,                      \* the RunningD objects created so far, by reference
  result,                    \* the latest call and how it ended
  prior_timestamp,           \* history: timestamp of the subject's latest reading
  calls,                     \* number of calls made
  results                    \* RTFPAProcessor.results: subject_id -> list of references

vars == <<min_multiplier, max_multiplier, velocity_mode, seconds_till_new_path,
          constrain_to_plane, tracked_objects_running_d, heap, result,
          prior_timestamp, calls, results>>

config == <<min_multiplier, max_multiplier, velocity_mode, seconds_till_new_path,
            constrain_to_plane>>

\* The arguments of a direct call on an engine; a dispatcher call has none.
Args(plane, velocity, scale) == [plane |-> plane, velocity |-> velocity, scale |-> scale]

NoArgs == Args(FALSE, FALSE, FZero)

\* kind: "new" (unseen subject), "dup" (same position), "break" (timeout),
\* "cont" (add_point), "config" (a setter), "none" (no call yet), or the
\* name of the engine method called directly.
\* out: "ok" (the call returned), "hang" (it never returns), or the exception
\* it raised.  ret: the reference returned; prev: the reference stored for
\* the subject before the call (0: none).
Result(kind, subject_id, point, timestamp, out, ret, prev) ==
  [kind |-> kind, subject_id |-> subject_id, point |-> point, timestamp |-> timestamp,
   out |-> out, ret |-> ret, prev |-> prev, args |-> NoArgs]

NoResult(kind) == Result(kind, "", Pt(0, 0, 0), 0, "ok", 0, 0)

\* RTFPAProcessor.results as constructed: no subject is a key.
NoResults == [s \in Subjects |-> [key |-> FALSE, list |-> <<>>]]

\* RTFPA.__init__(min_mul, max_mul)
Constructed(min_mul, max_mul) ==
  /\ min_multiplier = min_mul
  /\ max_multiplier = max_mul
  /\ velocity_mode = FALSE
  /\ tracked_objects_running_d = [s \in Subjects |-> 0]
  /\ seconds_till_new_path = 60
  /\ constrain_to_plane = FALSE
  /\ heap = <<>>
  /\ result = NoResult("none")
  /\ prior_timestamp = [s \in Subjects |-> 0]
  /\ calls = 0
  /\ results = NoResults

Init == \E mp \in MulPairs : Constructed(mp[1], mp[2])

\* A call can be made: the previous one is not stuck in a loop.
CanCall == result.out # "hang"

\* start_new_path without the copy of the dispatcher's velocity_mode.
NewEngineDefaultMode(subject_id, new_point, timestamp) ==
  RunningD(subject_id, new_point, timestamp, min_multiplier, max_multiplier)

\* start_new_path that counts the first reading as a step.
NewEngineCountsFirst(subject_id, new_point, timestamp) ==
  [RunningD(subject_id, new_point, timestamp, min_multiplier, max_multiplier)
     EXCEPT !.velocity_mode = velocity_mode, !.number_of_steps = 1]

\* The engine RTFPA.start_new_path stores for the subject.
NewEngine(subject_id, new_point, timestamp) ==
  [RunningD(subject_id, new_point, timestamp, min_multiplier, max_multiplier)
     EXCEPT !.velocity_mode = velocity_mode]

\* The same-position test with the plane flag ignored.
SamePositionAlways3D(new_point, rd) == distance(new_point, rd.position) = FZero

\* The same-position test of RTFPA.new_reading.
SamePosition(new_point, rd) ==
  IF constrain_to_plane
  THEN xy_distance(new_point, rd.position) = FZero
  ELSE distance(new_point, rd.position) = FZero

\* The new-path test with the difference taken the wrong way round and
\* no abs().
TimedOutBackwards(timestamp, rd) == rd.end_timestamp - timestamp > seconds_till_new_path

\* The new-path test against the first timestamp of the segment.
TimedOutSinceStart(timestamp, rd) == Abs(timestamp - rd.start_timestamp) > seconds_till_new_path

\* The new-path test with >= for >.
TimedOutAtLimit(timestamp, rd) == Abs(timestamp - rd.end_timestamp) >= seconds_till_new_path

\* The new-path test of RTFPA.new_reading.
TimedOut(timestamp, rd) == Abs(timestamp - rd.end_timestamp) > seconds_till_new_path

\* start_new_path that resets the stored engine in place when there is one.
start_new_path_in_place(kind, subject_id, new_point, timestamp) ==
  /\ heap' = IF tracked_objects_running_d[subject_id] # 0
             THEN [heap EXCEPT ![tracked_objects_running_d[subject_id]] =
                                 NewEngine(subject_id, new_point, timestamp)]
             ELSE Append(heap, NewEngine(subject_id, new_point, timestamp))
  /\ tracked_objects_running_d' =
       [tracked_objects_running_d EXCEPT
          ![subject_id] = IF @ # 0 THEN @ ELSE Len(heap) + 1]
  /\ result' = Result(kind, subject_id, new_point, timestamp, "ok",
                      IF tracked_objects_running_d[subject_id] # 0
                      THEN tracked_objects_running_d[subject_id] ELSE Len(heap) + 1,
                      tracked_objects_running_d[subject_id])

\* start_new_path that rebuilds the map with the new entry only.
start_new_path_clearing(kind, subject_id, new_point, timestamp) ==
  /\ heap' = Append(heap, NewEngine(subject_id, new_point, timestamp))
  /\ tracked_objects_running_d' =
       [s \in Subjects |-> IF s = subject_id THEN Len(heap) + 1 ELSE 0]
  /\ result' = Result(kind, subject_id, new_point, timestamp, "ok", Len(heap) + 1,
                      tracked_objects_running_d[subject_id])

\* RTFPA.start_new_path, as called by new_reading.
start_new_path(kind, subject_id, new_point, timestamp) ==
  /\ heap' = Append(heap, NewEngine(subject_id, new_point, timestamp))
  /\ tracked_objects_running_d' =
       [tracked_objects_running_d EXCEPT ![subject_id] = Len(heap) + 1]
  /\ result' = Result(kind, subject_id, new_point, timestamp, "ok", Len(heap) + 1,
                      tracked_objects_running_d[subject_id])

\* A continuation that writes the updated engine over every stored object.
ContinuedShared(ref, subject_id, new_point, timestamp, r) ==
  /\ heap' = [i \in DOMAIN heap |-> r.rd]
  /\ tracked_objects_running_d' = tracked_objects_running_d
  /\ result' = Result("cont", subject_id, new_point, timestamp, r.out,
                      IF r.out = "ok" THEN ref ELSE 0, ref)

\* The object as add_point left it; the reference is returned when
\* add_point returned.
Continued(ref, subject_id, new_point, timestamp, r) ==
  /\ heap' = [heap EXCEPT ![ref] = r.rd]
  /\ tracked_objects_running_d' = tracked_objects_running_d
  /\ result' = Result("cont", subject_id, new_point, timestamp, r.out,
                      IF r.out = "ok" THEN ref ELSE 0, ref)

\* _continue_path that leaves constrain_to_plane at add_point's default.
continue_path_default_plane(ref, subject_id, new_point, timestamp) ==
  Continued(ref, subject_id, new_point, timestamp,
            add_point(heap[ref], new_point, timestamp, FALSE))

\* RTFPA._continue_path, as called by new_reading.
continue_path(ref, subject_id, new_point, timestamp) ==
  Continued(ref, subject_id, new_point, timestamp,
            add_point(heap[ref], new_point, timestamp, constrain_to_plane))

\* RTFPA.new_reading
new_reading(subject_id, new_point, timestamp) ==
  /\ CanCall
  /\ calls' = calls + 1
  /\ prior_timestamp' = [prior_timestamp EXCEPT ![subject_id] = timestamp]
  /\ UNCHANGED config
  /\ LET ref == tracked_objects_running_d[subject_id]
     IN IF ref # 0
        THEN IF SamePosition(new_point, heap[ref])
             THEN /\ result' = Result("dup", subject_id, new_point, timestamp, "ok", ref, ref)
                  /\ UNCHANGED <<heap, tracked_objects_running_d>>
             ELSE IF TimedOut(timestamp, heap[ref])
             THEN start_new_path("break", subject_id, new_point, timestamp)
             ELSE continue_path(ref, subject_id, new_point, timestamp)
        ELSE start_new_path("new", subject_id, new_point, timestamp)

\* RTFPA.set_timeout
set_timeout(timeout) ==
  /\ CanCall
  /\ calls' = calls + 1
  /\ seconds_till_new_path' = timeout
  /\ result' = NoResult("config")
  /\ UNCHANGED <<min_multiplier, max_multiplier, velocity_mode, constrain_to_plane,
                 tracked_objects_running_d, heap, prior_timestamp, results>>

\* RTFPA.set_plane_constraint
set_plane_constraint(constrain) ==
  /\ CanCall
  /\ calls' = calls + 1
  /\ constrain_to_plane' = constrain
  /\ result' = NoResult("config")
  /\ UNCHANGED <<min_multiplier, max_multiplier, velocity_mode, seconds_till_new_path,
                 tracked_objects_running_d, heap, prior_timestamp, results>>

\* RTFPA.set_velocity_mode
set_velocity_mode(vm) ==
  /\ CanCall
  /\ calls' = calls + 1
  /\ velocity_mode' = vm
  /\ result' = NoResult("config")
  /\ UNCHANGED <<min_multiplier, max_multiplier, seconds_till_new_path, constrain_to_plane,
                 tracked_objects_running_d, heap, prior_timestamp, results>>

\* The subjects a reading can come from: subject ids are opaque keys, so
\* the first subject ever seen is called "s1".
NextSubjects ==
  IF tracked_objects_running_d["s1"] = 0 THEN {"s1"} ELSE Subjects

NewReading ==
  /\ calls < MaxCalls
  /\ \E s \in NextSubjects, pt \in Points, t \in Times : new_reading(s, pt, t)
  /\ UNCHANGED results

SetTimeout ==
  /\ calls < MaxCalls
  /\ \E t \in Timeouts \ {seconds_till_new_path} : set_timeout(t)

SetPlaneConstraint == calls < MaxCalls /\ set_plane_constraint(~constrain_to_plane)

SetVelocityMode == calls < MaxCalls /\ set_velocity_mode(~velocity_mode)

Next == NewReading \/ SetTimeout \/ SetPlaneConstraint \/ SetVelocityMode

Spec == Init /\ [][Next]_vars

(* ------------------- properties of RTFPA.new_reading -------------------- *)

\* The latest call was a new_reading call.
IsReading == result.kind \in {"new", "dup", "break", "cont"}

\* The step is a new_reading call for subject s.
ReadingFor(s) == result'.kind \in {"new", "dup", "break", "cont"}
                 /\ result'.subject_id = s /\ calls' = calls + 1

\* Equality of two points coordinate by coordinate, x and y only on the plane.
SameCoordinates(p, q, plane) == p.x = q.x /\ p.y = q.y /\ (plane \/ p.z = q.z)

UnsetSlots(centers) == \A i \in 2..4 : centers[i] = NoCenter

\* C1: a reading for a subject that is not a key of the map stores and
\* returns a newly created engine: position the reading's point, 0 steps,
\* length 0, D 0.0, both timestamps the reading's, slot 0 of both center
\* lists the point and slots 1-3 unset, all eight accumulators 0, and the
\* multipliers and velocity_mode those of the dispatcher.
C1_NewSubject ==
  result.kind = "new" =>
    /\ result.out = "ok"
    /\ result.prev = 0
    /\ result.ret = Len(heap)
    /\ tracked_objects_running_d[result.subject_id] = result.ret
    /\ heap[result.ret].subject_id = result.subject_id
    /\ heap[result.ret].position = result.point
    /\ heap[result.ret].number_of_steps = 0
    /\ heap[result.ret].real_path_length = FZero
    /\ heap[result.ret].D = FZero
    /\ heap[result.ret].start_timestamp = result.timestamp
    /\ heap[result.ret].end_timestamp = result.timestamp
    /\ heap[result.ret].min_sphere_center[1] = Center(result.point)
    /\ heap[result.ret].max_sphere_center[1] = Center(result.point)
    /\ UnsetSlots(heap[result.ret].min_sphere_center)
    /\ UnsetSlots(heap[result.ret].max_sphere_center)
    /\ \A i \in 1..4 : /\ heap[result.ret].min_path_length[i] = FZero
                       /\ heap[result.ret].max_path_length[i] = FZero
    /\ heap[result.ret].min_multiplier = min_multiplier
    /\ heap[result.ret].max_multiplier = max_multiplier
    /\ heap[result.ret].velocity_mode = velocity_mode

\* A new subject's engine created while velocity mode is on.
C1_Witness ==
  /\ result.kind = "new"
  /\ velocity_mode
  /\ result.point = Pt(3, 4, 0)
  /\ result.timestamp = 30

\* C2: a reading for a tracked subject at the coordinates of the engine's
\* position (x, y and z, or x and y only under the plane constraint) returns
\* the stored engine and changes no object and no map entry, whatever its
\* timestamp.
C2_DuplicateSuppressed ==
  [][\A s \in Subjects :
       (/\ ReadingFor(s)
        /\ tracked_objects_running_d[s] # 0
        /\ SameCoordinates(result'.point, heap[tracked_objects_running_d[s]].position,
                           constrain_to_plane))
       => /\ result'.out = "ok"
          /\ result'.ret = tracked_objects_running_d[s]
          /\ heap' = heap
          /\ tracked_objects_running_d' = tracked_objects_running_d]_vars

\* A duplicate under the plane constraint: same x and y, another z, at a
\* timestamp far from the engine's.
C2_Witness ==
  /\ result.kind = "dup"
  /\ constrain_to_plane
  /\ result.point.z # heap[result.ret].position.z
  /\ result.timestamp - heap[result.ret].end_timestamp > seconds_till_new_path

\* C3 as stated: a reading for a tracked subject more than the timeout
\* after the subject's prior reading returns an engine with 0 steps and
\* length 0.
C3_TimeoutAfterPriorReading ==
  [][\A s \in Subjects :
       (/\ ReadingFor(s)
        /\ tracked_objects_running_d[s] # 0
        /\ result'.timestamp - prior_timestamp[s] > seconds_till_new_path)
       => /\ result'.out = "ok"
          /\ heap'[result'.ret].number_of_steps = 0
          /\ heap'[result'.ret].real_path_length = FZero]_vars

\* C3, amended: a reading for a tracked subject at a position other than
\* the engine's and more than the timeout after the engine's end_timestamp
\* returns a new engine with 0 steps and length 0, stored for the subject.
C3_TimeoutNewSegment ==
  [][\A s \in Subjects :
       (/\ ReadingFor(s)
        /\ tracked_objects_running_d[s] # 0
        /\ ~SameCoordinates(result'.point, heap[tracked_objects_running_d[s]].position,
                            constrain_to_plane)
        /\ result'.timestamp - heap[tracked_objects_running_d[s]].end_timestamp
             > seconds_till_new_path)
       => /\ result'.out = "ok"
          /\ result'.ret = Len(heap) + 1
          /\ tracked_objects_running_d'[s] = result'.ret
          /\ heap'[result'.ret].number_of_steps = 0
          /\ heap'[result'.ret].real_path_length = FZero]_vars

\* A path break that replaced an engine which had taken a step.
C3_Witness ==
  /\ result.kind = "break"
  /\ heap[result.prev].number_of_steps > 0
  /\ result.timestamp - heap[result.prev].end_timestamp > seconds_till_new_path
  /\ tracked_objects_running_d[result.subject_id] = result.ret

\* C4: a reading for a tracked subject at another position and within the
\* timeout of the engine's end_timestamp returns the engine stored before
\* the call, with one more step, the position the new point, the
\* end_timestamp the reading's, and start_timestamp, subject_id and the
\* multipliers as before.
C4_Continuation ==
  [][\A s \in Subjects :
       (/\ ReadingFor(s)
        /\ tracked_objects_running_d[s] # 0
        /\ ~SameCoordinates(result'.point, heap[tracked_objects_running_d[s]].position,
                            constrain_to_plane)
        /\ Abs(result'.timestamp - heap[tracked_objects_running_d[s]].end_timestamp)
             <= seconds_till_new_path)
       => /\ result'.out = "ok"
          /\ result'.ret = tracked_objects_running_d[s]
          /\ tracked_objects_running_d'[s] = tracked_objects_running_d[s]
          /\ heap'[result'.ret].number_of_steps = heap[result'.ret].number_of_steps + 1
          /\ heap'[result'.ret].position = result'.point
          /\ heap'[result'.ret].end_timestamp = result'.timestamp
          /\ heap'[result'.ret].start_timestamp = heap[result'.ret].start_timestamp
          /\ heap'[result'.ret].subject_id = heap[result'.ret].subject_id
          /\ heap'[result'.ret].min_multiplier = heap[result'.ret].min_multiplier
          /\ heap'[result'.ret].max_multiplier = heap[result'.ret].max_multiplier]_vars

\* C5 as stated: the returned engine has 0 steps exactly when the call
\* created it.
C5_ZeroStepsIffCreated ==
  (IsReading /\ result.out = "ok") =>
    (heap[result.ret].number_of_steps = 0 <=> result.kind \in {"new", "break"})

\* C5, amended: the returned engine has 0 steps when the call created it
\* and at least 1 step when the call continued a path; a suppressed
\* duplicate returns the stored engine with the count it had, which is 0
\* only if no reading has continued the segment.
C5_NewSegmentSignal ==
  (IsReading /\ result.out = "ok") =>
    /\ result.kind \in {"new", "break"} => heap[result.ret].number_of_steps = 0
    /\ result.kind = "cont" => heap[result.ret].number_of_steps >= 1
    /\ result.kind = "dup" =>
         (heap[result.ret].number_of_steps = 0
            <=> heap[result.ret].end_timestamp = heap[result.ret].start_timestamp
                /\ heap[result.ret].real_path_length = FZero)

\* A duplicate of the first reading of a segment: 0 steps, no engine created.
C5_Witness ==
  /\ result.kind = "dup"
  /\ result.out = "ok"
  /\ heap[result.ret].number_of_steps = 0
  /\ result.ret = result.prev
  /\ Len(heap) = 1

\* C6: after every call the keys of the map are the subjects ingested so
\* far, no key is ever removed, and the engine stored under s has
\* subject_id s.
C6_OneEnginePerSubject ==
  [][/\ \A s \in Subjects :
          /\ tracked_objects_running_d[s] # 0 => tracked_objects_running_d'[s] # 0
          /\ tracked_objects_running_d'[s] # 0
               <=> (tracked_objects_running_d[s] # 0 \/ ReadingFor(s))
          /\ tracked_objects_running_d'[s] # 0 =>
               /\ tracked_objects_running_d'[s] \in DOMAIN heap'
               /\ heap'[tracked_objects_running_d'[s]].subject_id = s
     /\ \A s, t \in Subjects :
          (s # t /\ tracked_objects_running_d'[s] # 0)
            => tracked_objects_running_d'[s] # tracked_objects_running_d'[t]]_vars

\* Both subjects tracked, one of them in its second segment.
C6_Witness ==
  /\ \A s \in Subjects : tracked_objects_running_d[s] # 0
  /\ Len(heap) = 3
  /\ result.kind = "break"

\* C7: a new_reading call for one subject leaves the map entry and the
\* engine of every other subject as they were.
C7_SubjectsIndependent ==
  [][\A s \in Subjects :
       ReadingFor(s) =>
         \A b \in Subjects \ {s} :
           /\ tracked_objects_running_d'[b] = tracked_objects_running_d[b]
           /\ tracked_objects_running_d[b] # 0 =>
                heap'[tracked_objects_running_d[b]] = heap[tracked_objects_running_d[b]]]_vars

\* A continuation of one subject's path while the other subject is tracked.
C7_Witness ==
  /\ result.kind = "cont"
  /\ result.out = "ok"
  /\ \E b \in Subjects \ {result.subject_id} : tracked_objects_running_d[b] # 0

(* ------------------ scripted paths through the dispatcher --------------- *)

\* The two straight paths of the tests: the diagonal of test_rtfpa_full_suite
\* (six readings 1 s apart from (1,2,3)) and the x-axis path of
\* test_continue_path_measurements_five_steps (an engine at the origin
\* continued seven times, 10 units and 5 s apart).  last: index of the last
\* reading.
Lines ==
  [s1 |-> [start |-> <<1, 2, 3>>, step |-> <<1, 1, 1>>, dt |-> 1, last |-> 5],
   s2 |-> [start |-> <<0, 0, 0>>, step |-> <<10, 0, 0>>, dt |-> 5, last |-> 7]]

\* The k-th reading (from 0) of the path of subject s.
LinePoint(s, k) ==
  Pt(Lines[s].start[1] + k * Lines[s].step[1],
     Lines[s].start[2] + k * Lines[s].step[2],
     Lines[s].start[3] + k * Lines[s].step[3])

\* RTFPA(0.5, 10.0), the test fixture RTFPA(min_mul=0.5, max_mul=5.0), and a
\* dispatcher with equal multipliers, RTFPA(0.5, 0.5).
LineMulPairs ==
  {<<Lit(1, -1), FromInt(10)>>, <<Lit(1, -1), FromInt(5)>>, <<Lit(1, -1), Lit(1, -1)>>}

InitLine == \E mp \in LineMulPairs : Constructed(mp[1], mp[2])

\* Readings of its path that subject s has been through.
Taken(s) ==
  IF tracked_objects_running_d[s] = 0 THEN 0
  ELSE heap[tracked_objects_running_d[s]].number_of_steps + 1

\* The next reading of either path, the two paths interleaved at will.
LineReading ==
  \E s \in Subjects :
    /\ Taken(s) <= Lines[s].last
    /\ new_reading(s, LinePoint(s, Taken(s)), Taken(s) * Lines[s].dt)
    /\ UNCHANGED results

SpecLine == InitLine /\ [][LineReading]_vars

\* C8: RTFPA(0.5, 10.0) with timeout 60 and no plane constraint, fed the
\* six diagonal readings of one subject: every call returns, there is one
\* tracked subject and one engine, whose step count is the index of the
\* reading (0, 1, ..., 5), and after the sixth reading 0.9 < D < 1.1.
C8_EndToEnd ==
  (/\ max_multiplier = FromInt(10)
   /\ min_multiplier = Lit(1, -1)
   /\ seconds_till_new_path = 60
   /\ ~constrain_to_plane
   /\ result.kind \in {"new", "cont"}
   /\ tracked_objects_running_d["s2"] = 0)
  => /\ result.out = "ok"
     /\ result.subject_id = "s1"
     /\ Len(heap) = 1
     /\ heap[result.ret].number_of_steps = calls - 1
     /\ heap[result.ret].position = LinePoint("s1", calls - 1)
     /\ calls = Lines["s1"].last + 1 =>
          /\ FLt(Lit(9, -1) , FMul(heap[result.ret].D, FromInt(5)))
          /\ FLt(FMul(heap[result.ret].D, FromInt(10)), FromInt(11))

\* C9: an engine started at the origin with multipliers 0.5 and 5.0 and
\* continued along the x-axis: every call returns, and after the seventh
\* continuation it has 7 steps, length 70, the last point as position, the
\* last timestamp as end_timestamp and 0.9 < D < 1.1.
C9_StraightLine ==
  (max_multiplier = FromInt(5) /\ min_multiplier = Lit(1, -1)
   /\ tracked_objects_running_d["s2"] # 0)
  => /\ result.subject_id = "s2" => result.out = "ok"
     /\ heap[tracked_objects_running_d["s2"]].number_of_steps = Lines["s2"].last =>
          /\ heap[tracked_objects_running_d["s2"]].real_path_length = FromInt(70)
          /\ heap[tracked_objects_running_d["s2"]].position = Pt(70, 0, 0)
          /\ heap[tracked_objects_running_d["s2"]].end_timestamp = 35
          /\ heap[tracked_objects_running_d["s2"]].start_timestamp = 0
          /\ FLt(FromInt(9), FMul(heap[tracked_objects_running_d["s2"]].D, FromInt(10)))
          /\ FLt(FMul(heap[tracked_objects_running_d["s2"]].D, FromInt(10)), FromInt(11))

\* The x-axis path walked to its end, alone, under multipliers 0.5 and 5.0.
C9_Witness ==
  /\ max_multiplier = FromInt(5)
  /\ min_multiplier = Lit(1, -1)
  /\ tracked_objects_running_d["s1"] = 0
  /\ tracked_objects_running_d["s2"] # 0
  /\ result.out = "ok"
  /\ heap[tracked_objects_running_d["s2"]].number_of_steps = 7

(* ---------------- direct calls on one RunningD object ------------------- *)

\* Values the tests assign to the step sizes, and pass as the scale.
DirectScales == {FromInt(-1), FZero, Lit(1, -1), FromInt(2)}

\* Values assigned to (min_step_velocity, max_step_velocity).
DirectVelocities == {<<FZero, FZero>>, <<FromInt(1), FromInt(5)>>}

\* Values assigned to (min_path_length, max_path_length).
DirectLengths ==
  {<<<<FZero, FZero, FZero, FZero>>, <<FZero, FZero, FZero, FZero>>>>,
   <<<<FromInt(4), FZero, FZero, FZero>>, <<FromInt(2), FZero, FZero, FZero>>>>,
   <<<<FromInt(4), FromInt(-1), FromInt(8), FZero>>,
     <<FromInt(2), FromInt(1), FromInt(2), FZero>>>>}

\* The fixture sample_running_d, RunningD("test_subject", Point3D(1, 2, 3),
\* timestamp, 0.5, 10.0), with fields assigned as the tests assign them.
DirectEngines ==
  {[RunningD("test_subject", Pt(1, 2, 3), 0, Lit(1, -1), FromInt(10)) EXCEPT
      !.position = pos, !.min_step_size = smin, !.max_step_size = smax,
      !.min_step_velocity = v[1], !.max_step_velocity = v[2],
      !.min_path_length = l[1], !.max_path_length = l[2], !.D = d] :
   pos \in {Pt(1, 2, 3), Pt(4, 6, 3)}, smin \in DirectScales, smax \in DirectScales,
   v \in DirectVelocities, l \in DirectLengths, d \in {FZero, Lit(3, -1)}}

\* One object, not stored in any dispatcher map.
InitDirect ==
  \E rd \in DirectEngines :
    /\ min_multiplier = rd.min_multiplier
    /\ max_multiplier = rd.max_multiplier
    /\ velocity_mode = FALSE
    /\ tracked_objects_running_d = [s \in Subjects |-> 0]
    /\ seconds_till_new_path = 60
    /\ constrain_to_plane = FALSE
    /\ heap = <<rd>>
    /\ result = NoResult("none")
    /\ prior_timestamp = [s \in Subjects |-> 0]
    /\ calls = 0
    /\ results = NoResults

\* The object before the direct call stays heap[1]; the object as the call
\* left it becomes heap[2].
DirectEnded(kind, args, rd, out) ==
  /\ calls = 0
  /\ calls' = 1
  /\ heap' = <<heap[1], rd>>
  /\ result' = [Result(kind, heap[1].subject_id, heap[1].position, 0, out, 2, 1)
                  EXCEPT !.args = args]
  /\ UNCHANGED <<config, tracked_objects_running_d, prior_timestamp, results>>

FractalEnded(args, r) == DirectEnded("fractal", args, r.rd, r.out)

\* rd.fractal(constrain_to_plane=plane, use_velocity=velocity)
DirectFractal ==
  \E plane \in BOOLEAN, velocity \in BOOLEAN :
    FractalEnded(Args(plane, velocity, FZero), fractal(heap[1], plane, velocity))

\* Scales passed to a direct walk: the ones above and one that is small
\* against the coordinates of the fixture.
WalkScales == DirectScales \cup {Lit(1, -6)}

WalkEnded(args, w) ==
  DirectEnded("calculate_path_length", args,
              [heap[1] EXCEPT !.min_sphere_center = w.centers, !.min_path_length = w.lengths],
              w.out)

\* rd.calculate_path_length(rd.min_sphere_center, scale, rd.min_path_length,
\* rd.position, plane)
DirectCalculatePathLength ==
  \E scale \in WalkScales, plane \in BOOLEAN :
    WalkEnded(Args(plane, FALSE, scale),
              calculate_path_length(heap[1].min_sphere_center, scale, heap[1].min_path_length,
                                    heap[1].position, plane))

NextDirect == DirectFractal \/ DirectCalculatePathLength

SpecDirect == InitDirect /\ [][NextDirect]_vars

\* The scales fractal() selects for the latest direct call.
SelectedMinScale ==
  IF result.args.velocity THEN heap[1].min_step_velocity ELSE heap[1].min_step_size

SelectedMaxScale ==
  IF result.args.velocity THEN heap[1].max_step_velocity ELSE heap[1].max_step_size

\* C10: a fractal() call whose selected min or max scale is <= 0 leaves D
\* exactly 0.0, and a calculate_path_length call with scale <= 0 returns
\* with every center and every accumulator of its lists as before.
C10_DegenerateScale ==
  /\ (/\ result.kind = "fractal"
      /\ result.out = "ok"
      /\ (FLe(SelectedMinScale, FZero) \/ FLe(SelectedMaxScale, FZero)))
     => heap[2].D = FZero
  /\ (result.kind = "calculate_path_length" /\ FLe(result.args.scale, FZero))
     => /\ result.out = "ok"
        /\ heap[2] = heap[1]

\* fractal() called with a min scale of 0 and a positive max scale on an
\* object whose accumulators are positive and whose D was 1.5.
C10_Witness ==
  /\ result.kind = "fractal"
  /\ result.out = "ok"
  /\ SelectedMinScale = FZero
  /\ FLt(FZero, SelectedMaxScale)
  /\ FLt(FZero, heap[2].min_path_length[1])
  /\ FLt(FZero, heap[2].max_path_length[1])
  /\ heap[1].D = Lit(3, -1)
  /\ heap[2].D = FZero

\* C11: no new_reading call raises an exception, whatever the readings and
\* the configuration (a call that ends at all ends by returning).
C11_NoException == IsReading => result.out \in {"ok", "hang"}

\* The step is a continuation (an add_point call) on the engine with
\* reference ref.
ContinuationOf(ref) == result'.kind = "cont" /\ result'.prev = ref /\ calls' = calls + 1

\* The length of the step from p to q, in the plane or in space.
StepDistance(p, q, plane) ==
  IF plane THEN distance(Point3D(p.x, p.y, FZero), Point3D(q.x, q.y, FZero))
  ELSE distance(p, q)

\* What an add_point call shows of the flags it worked with: the step
\* length added (plane), the mean step size divided by the step time or
\* not, and the step sizes or the velocities (which stay 0.0, so that no
\* accumulator changes) taken as the scales.
ProcessedWith(before, after, point, out, plane, velocity) ==
  /\ after.real_path_length =
       FAdd(before.real_path_length, StepDistance(before.position, point, plane))
  /\ (~velocity /\ out # "ZeroDivisionError") =>
       after.mean_step_size = FDiv(after.real_path_length, FromInt(after.number_of_steps))
  /\ (velocity /\ after.step_time # FZero) =>
       /\ out # "ZeroDivisionError"
       /\ after.mean_step_size =
            FDiv(FDiv(after.real_path_length, FromInt(after.number_of_steps)),
                 after.step_time)
  /\ (velocity /\ out = "ok") =>
       /\ after.min_path_length = before.min_path_length
       /\ after.max_path_length = before.max_path_length
       /\ after.D = FZero

\* C12 as stated: every continuation is processed with the dispatcher's
\* current plane flag and the dispatcher's current velocity flag.
C12_FlagsOfDispatcher ==
  [][\A ref \in DOMAIN heap :
       ContinuationOf(ref) =>
         ProcessedWith(heap[ref], heap'[ref], result'.point, result'.out,
                       constrain_to_plane, velocity_mode)]_vars

\* C12, amended: every continuation is processed with the dispatcher's
\* current plane flag and with the velocity flag the engine was given when
\* it was created, which no setter changes.
C12_FlagsAtCallTime ==
  [][\A ref \in DOMAIN heap :
       /\ ContinuationOf(ref) =>
            /\ ProcessedWith(heap[ref], heap'[ref], result'.point, result'.out,
                             constrain_to_plane, heap[ref].velocity_mode)
            /\ heap'[ref].velocity_mode = heap[ref].velocity_mode
       /\ (ref \in DOMAIN heap' /\ result'.kind = "config") =>
            heap'[ref] = heap[ref]]_vars

\* A continuation, after set_velocity_mode(True), of an engine created
\* before it: the step sizes are the scales and the min walk has measured.
C12_Witness ==
  /\ result.kind = "cont"
  /\ result.out = "ok"
  /\ velocity_mode
  /\ ~heap[result.ret].velocity_mode
  /\ FLt(FZero, heap[result.ret].min_path_length[1])

(* --------------- direct calls of LineToolsRT.line_sphere_intersect ------ *)

\* The lines of the tests (line_point1, line_point2), a segment of the
\* tangent line y = 1 that stops short of the tangent point, the line of the
\* step from (0,0,5) to (3,4,0), and a line of two equal points.
IntersectLines ==
  {<<Pt(0, 0, 0), Pt(1, 0, 0)>>, <<Pt(-1, 1, 0), Pt(1, 1, 0)>>,
   <<Pt(-2, 0, 0), Pt(2, 0, 0)>>, <<Pt(2, 0, 0), Pt(3, 0, 0)>>,
   <<Pt(2, 1, 0), Pt(3, 1, 0)>>,
   <<Pt(0, 0, 5), Pt(3, 4, 0)>>, <<Pt(0, 0, 0), Pt(0, 0, 0)>>}

IntersectCenters == {Pt(0, 0, 0), Pt(0, 2, 0), Pt(0, 0, 5)}

\* The radii of the tests, and half the length of the step from (0,0,5) to
\* (3,4,0), which is the min scale RTFPA(0.5, 1.0) walks it with.
IntersectRadii == {FromInt(1), FromInt(3), FMul(Lit(1, -1), FSqrt(FromInt(50)))}

\* The arguments of one call.
IntersectArgs(line, sphere_center, sphere_radius, constrain_to_segment) ==
  [line_point1 |-> line[1], line_point2 |-> line[2], sphere_center |-> sphere_center,
   sphere_radius |-> sphere_radius, constrain_to_segment |-> constrain_to_segment]

\* No dispatcher and no engine: the arguments of the call to come.
InitIntersect ==
  /\ \E line \in IntersectLines, sc \in IntersectCenters, r \in IntersectRadii,
        cts \in BOOLEAN :
       result = [NoResult("none") EXCEPT !.args = IntersectArgs(line, sc, r, cts)]
  /\ min_multiplier = Lit(1, -1)
  /\ max_multiplier = FromInt(10)
  /\ velocity_mode = FALSE
  /\ tracked_objects_running_d = [s \in Subjects |-> 0]
  /\ seconds_till_new_path = 60
  /\ constrain_to_plane = FALSE
  /\ heap = <<>>
  /\ prior_timestamp = [s \in Subjects |-> 0]
  /\ calls = 0
  /\ results = NoResults

\* The value returned (or the exception) becomes heap[1].
IntersectEnded(value) ==
  /\ calls = 0
  /\ calls' = 1
  /\ heap' = <<value>>
  /\ result' = [result EXCEPT !.kind = "line_sphere_intersect",
                              !.out = IF value.kind = "ZeroDivisionError"
                                      THEN "ZeroDivisionError" ELSE "ok",
                              !.ret = IF value.kind = "list" THEN 1 ELSE 0]
  /\ UNCHANGED <<config, tracked_objects_running_d, prior_timestamp, results>>

\* LineToolsRT.line_sphere_intersect(line_point1, line_point2,
\* sphere_center, sphere_radius, constrain_to_segment)
DirectIntersect ==
  IntersectEnded(line_sphere_intersect(result.args.line_point1, result.args.line_point2,
                                       result.args.sphere_center, result.args.sphere_radius,
                                       result.args.constrain_to_segment))

SpecIntersect == InitIntersect /\ [][DirectIntersect]_vars


(* ------------------- claims on line_sphere_intersect -------------------- *)

\* A call of line_sphere_intersect has ended; its value is heap[1].
IsIntersect == result.kind = "line_sphere_intersect"

\* The direction of the line of the call, and the discriminant the source
\* computes for it.
ArgsDx == FSub(result.args.line_point2.x, result.args.line_point1.x)

ArgsDy == FSub(result.args.line_point2.y, result.args.line_point1.y)

ArgsDz == FSub(result.args.line_point2.z, result.args.line_point1.z)

ArgsA == QuadA(ArgsDx, ArgsDy, ArgsDz)

ArgsB == QuadB(result.args.line_point1, result.args.sphere_center, ArgsDx, ArgsDy, ArgsDz)

ArgsDiscriminant ==
  FSub(Sq(ArgsB), FMul(FMul(Four, ArgsA),
                       QuadC(result.args.line_point1, result.args.sphere_center,
                             result.args.sphere_radius)))

NonDegenerate == result.args.line_point1 # result.args.line_point2

\* The point of the line at parameter t.
ArgsPointAt(t) == PointAt(result.args.line_point1, t, ArgsDx, ArgsDy, ArgsDz)

\* The tangent parameter and the two roots, as the source computes them.
ArgsT == FDiv(FNeg(ArgsB), FMul(Two, ArgsA))

ArgsT1 == FDiv(FAdd(FNeg(ArgsB), FSqrt(ArgsDiscriminant)), FMul(Two, ArgsA))

ArgsT2 == FDiv(FSub(FNeg(ArgsB), FSqrt(ArgsDiscriminant)), FMul(Two, ArgsA))

Clamped(t) == IF FLt(t, FZero) THEN FZero ELSE IF FLt(One, t) THEN One ELSE t

\* p is no farther from the center of the call than its radius.
WithinRadius(p) == FLe(distance(p, result.args.sphere_center), result.args.sphere_radius)

\* The points of ps that are within the radius, in order.
RECURSIVE OnlyWithin(_)
OnlyWithin(ps) ==
  IF ps = <<>> THEN <<>>
  ELSE (IF WithinRadius(Head(ps)) THEN <<Head(ps)>> ELSE <<>>) \o OnlyWithin(Tail(ps))

\* v lies between a and b, in either order.
Between(a, v, b) == (FLe(a, v) /\ FLe(v, b)) \/ (FLe(b, v) /\ FLe(v, a))

\* p is in the box spanned by the end points of the segment of the call.
InSegmentBox(p) ==
  /\ Between(result.args.line_point1.x, p.x, result.args.line_point2.x)
  /\ Between(result.args.line_point1.y, p.y, result.args.line_point2.y)
  /\ Between(result.args.line_point1.z, p.z, result.args.line_point2.z)

\* The integer a float with an integral value stands for.
IntOf(f) == IF f.e >= 0 THEN f.m * Pow2(f.e) ELSE f.m \div Pow2(-f.e)

IsIntegral(f) == f.e >= 0 \/ f.m % Pow2(-f.e) = 0

\* Exact integer geometry of the call: w = line_point1 - center,
\* d = line_point2 - line_point1, and their dot products.
ExactW == [x |-> IntOf(result.args.line_point1.x) - IntOf(result.args.sphere_center.x), y |-> IntOf(result.args.line_point1.y) - IntOf(result.args.sphere_center.y), z |-> IntOf(result.args.line_point1.z) - IntOf(result.args.sphere_center.z)]

ExactD == [x |-> IntOf(ArgsDx), y |-> IntOf(ArgsDy), z |-> IntOf(ArgsDz)]

Dot(u, v) == u.x * v.x + u.y * v.y + u.z * v.z

ExactR2 == IntOf(result.args.sphere_radius) * IntOf(result.args.sphere_radius)

\* Every point of the segment is farther from the center than the radius
\* (the nearest point of the segment is an end point or the foot of the
\* perpendicular from the center).
WhollyOutside ==
  /\ IsIntegral(result.args.sphere_radius)
  /\ IF Dot(ExactW, ExactD) >= 0 THEN Dot(ExactW, ExactW) > ExactR2
     ELSE IF -Dot(ExactW, ExactD) >= Dot(ExactD, ExactD)
     THEN Dot(ExactW, ExactW) + 2 * Dot(ExactW, ExactD) + Dot(ExactD, ExactD) > ExactR2
     ELSE Dot(ExactW, ExactW) * Dot(ExactD, ExactD) - Dot(ExactW, ExactD) * Dot(ExactW, ExactD)
            > ExactR2 * Dot(ExactD, ExactD)

\* Both end points of the segment are strictly inside the sphere.
FullyInside ==
  /\ IsIntegral(result.args.sphere_radius)
  /\ Dot(ExactW, ExactW) < ExactR2
  /\ Dot(ExactW, ExactW) + 2 * Dot(ExactW, ExactD) + Dot(ExactD, ExactD) < ExactR2

\* C14: with a positive discriminant and constrain_to_segment true, the
\* call returns exactly the points at the two clamped roots that are within
\* the radius of the center (None if neither is); hence every returned
\* point is on the segment and within the radius, a segment fully inside
\* the sphere yields its two end points, and a segment wholly outside the
\* sphere yields None. With constrain_to_segment false the points at the
\* unclamped roots are returned.
C14_ClampedRoots ==
  (IsIntersect /\ NonDegenerate) =>
    /\ (FLt(FZero, ArgsDiscriminant) /\ result.args.constrain_to_segment) =>
         /\ heap[1].pts = OnlyWithin(<<ArgsPointAt(Clamped(ArgsT1)), ArgsPointAt(Clamped(ArgsT2))>>)
         /\ heap[1].kind = IF heap[1].pts = <<>> THEN "None" ELSE "list"
         /\ \A i \in 1..Len(heap[1].pts) : WithinRadius(heap[1].pts[i]) /\ InSegmentBox(heap[1].pts[i])
    /\ (FullyInside /\ result.args.constrain_to_segment) =>
         /\ FLt(FZero, ArgsDiscriminant)
         /\ heap[1] = ListResult(<<result.args.line_point2, result.args.line_point1>>)
    /\ (WhollyOutside /\ result.args.constrain_to_segment) => heap[1] = NoneResult
    /\ (FLt(FZero, ArgsDiscriminant) /\ ~result.args.constrain_to_segment) =>
         heap[1] = ListResult(<<ArgsPointAt(ArgsT1), ArgsPointAt(ArgsT2)>>)

\* A constrained call with a positive discriminant returned the point at
\* one root and the end point the other root was clamped to.
C14_Witness ==
  /\ IsIntersect /\ NonDegenerate
  /\ result.args.constrain_to_segment
  /\ FLt(FZero, ArgsDiscriminant)
  /\ Clamped(ArgsT1) = ArgsT1
  /\ Clamped(ArgsT2) # ArgsT2
  /\ heap[1].kind = "list" /\ Len(heap[1].pts) = 2


(* ------- line_tools.py: LineToolsRT.calculate_fractal_dimension_simple -- *)

\* The state of a measuring loop after its inner while loop: the index j
\* and the accumulated length.
Measured(j, accumulated) == [j |-> j, accumulated |-> accumulated]

RECURSIVE MeasureInner(_, _, _, _)
\* while j < len(path_points) and accumulated < scale (j counts from 0, as
\* in the source; the sequence is indexed from 1).
MeasureInner(path_points, scale, j, accumulated) ==
  IF j < Len(path_points) /\ FLt(accumulated, scale)
  THEN MeasureInner(path_points, scale, j + 1,
                    FAdd(accumulated, distance(path_points[j], path_points[j + 1])))
  ELSE Measured(j, accumulated)

RECURSIVE MeasureOuter(_, _, _, _)
\* length += accumulated; i = j: the segment after each group is passed
\* over.
MeasureNextSkipping(path_points, scale, length, inner) ==
  MeasureOuter(path_points, scale, inner.j, FAdd(length, inner.accumulated))

\* length += accumulated; i = j - 1
MeasureNext(path_points, scale, length, inner) ==
  MeasureOuter(path_points, scale, inner.j - 1, FAdd(length, inner.accumulated))

\* while i < len(path_points) - 1
MeasureOuter(path_points, scale, i, length) ==
  IF i < Len(path_points) - 1
  THEN MeasureNext(path_points, scale, length, MeasureInner(path_points, scale, i + 1, FZero))
  ELSE length

\* The path length measured at one scale.
MeasureLength(path_points, scale) == MeasureOuter(path_points, scale, 0, FZero)

\* 1.0 - (log_length_diff / log_scale_diff); the ZeroDivisionError of a zero
\* scale difference is caught and 0.0 returned.
SimpleFromLogs(log_length_diff, log_scale_diff) ==
  IF log_scale_diff = FZero THEN FZero
  ELSE FSub(One, FDiv(log_length_diff, log_scale_diff))

\* A variant of SimpleFromLengths whose final return is 1.0.
SimpleFromLengthsOrOne(min_length, max_length, min_scale, max_scale) ==
  IF FLt(FZero, min_length) /\ FLt(FZero, max_length) /\ min_scale # max_scale
  THEN SimpleFromLogs(FSub(FLog10(min_length), FLog10(max_length)),
                      FSub(FLog10(min_scale), FLog10(max_scale)))
  ELSE One

\* The try block and the final return 0.0.
SimpleFromLengths(min_length, max_length, min_scale, max_scale) ==
  IF FLt(FZero, min_length) /\ FLt(FZero, max_length) /\ min_scale # max_scale
  THEN SimpleFromLogs(FSub(FLog10(min_length), FLog10(max_length)),
                      FSub(FLog10(min_scale), FLog10(max_scale)))
  ELSE FZero

\* LineToolsRT.calculate_fractal_dimension_simple
calculate_fractal_dimension_simple(path_points, min_scale, max_scale) ==
  IF FLe(min_scale, FZero) \/ FLe(max_scale, FZero) THEN FZero
  ELSE IF Len(path_points) < 2 THEN FZero
  ELSE SimpleFromLengths(MeasureLength(path_points, min_scale),
                         MeasureLength(path_points, max_scale), min_scale, max_scale)

(* ------- direct calls of calculate_fractal_dimension_simple ------------- *)

\* The paths of the tests, a path of two equal points, a path with a turn
\* and a closed path of three segments of different lengths.
SimplePaths ==
  {<<>>, <<Pt(0, 0, 0)>>, <<Pt(0, 0, 0), Pt(1, 1, 1)>>,
   <<Pt(0, 0, 0), Pt(2, 0, 0), Pt(4, 0, 0), Pt(6, 0, 0), Pt(10, 0, 0)>>,
   <<Pt(0, 0, 0), Pt(0, 0, 0)>>, <<Pt(0, 0, 0), Pt(3, 4, 0), Pt(0, 0, 5)>>,
   <<Pt(0, 0, 0), Pt(0, 2, 0), Pt(1, 3, 0), Pt(0, 0, 0)>>}

\* The scales of the tests (0.1 as 1/8), and a negative one.
SimpleScales == {FromInt(0), FromInt(-1), Lit(1, -3), Lit(1, -1), FromInt(1), FromInt(2)}

\* The arguments of one call.
SimpleArgs(path_points, min_scale, max_scale) ==
  [path_points |-> path_points, min_scale |-> min_scale, max_scale |-> max_scale]

\* No dispatcher and no engine: the arguments of the call to come.
InitSimple ==
  /\ \E path_points \in SimplePaths, min_scale \in SimpleScales, max_scale \in SimpleScales :
       result = [NoResult("none") EXCEPT !.args = SimpleArgs(path_points, min_scale, max_scale)]
  /\ min_multiplier = Lit(1, -1)
  /\ max_multiplier = FromInt(10)
  /\ velocity_mode = FALSE
  /\ tracked_objects_running_d = [s \in Subjects |-> 0]
  /\ seconds_till_new_path = 60
  /\ constrain_to_plane = FALSE
  /\ heap = <<>>
  /\ prior_timestamp = [s \in Subjects |-> 0]
  /\ calls = 0
  /\ results = NoResults

\* The float returned becomes heap[1].
SimpleEnded(value) ==
  /\ calls = 0
  /\ calls' = 1
  /\ heap' = <<value>>
  /\ result' = [result EXCEPT !.kind = "calculate_fractal_dimension_simple", !.out = "ok"]
  /\ UNCHANGED <<config, tracked_objects_running_d, prior_timestamp, results>>

\* LineToolsRT.calculate_fractal_dimension_simple(path_points, min_scale,
\* max_scale)
DirectSimple ==
  SimpleEnded(calculate_fractal_dimension_simple(result.args.path_points,
                                                 result.args.min_scale, result.args.max_scale))

SpecSimple == InitSimple /\ [][DirectSimple]_vars

\* A call of calculate_fractal_dimension_simple has ended; its value is
\* heap[1].
IsSimple == result.kind = "calculate_fractal_dimension_simple"

\* C15: calculate_fractal_dimension_simple returns exactly 0.0, without
\* raising, when min_scale <= 0 or max_scale <= 0, or the path has fewer
\* than two points, or min_scale = max_scale.
C15_SimpleZero ==
  (/\ IsSimple
   /\ \/ result.args.min_scale.m <= 0
      \/ result.args.max_scale.m <= 0
      \/ Len(result.args.path_points) < 2
      \/ result.args.min_scale = result.args.max_scale)
  => (result.out = "ok" /\ heap[1] = FZero)

\* Equal positive scales on a path of positive length returned 0.0.
C15_Witness ==
  /\ IsSimple
  /\ result.args.min_scale = result.args.max_scale
  /\ result.args.min_scale.m > 0
  /\ Len(result.args.path_points) >= 2
  /\ result.args.path_points[1] # result.args.path_points[2]
  /\ heap[1] = FZero


(* ------------------------- path breaks and steps ------------------------ *)

\* C16: for a tracked subject and a reading that is not a duplicate, the
\* engine stored for the subject is replaced if and only if
\* |timestamp - end_timestamp| > seconds_till_new_path, strictly: a
\* difference equal to the timeout, and an earlier timestamp within the
\* window, continue the path.
C16_BreakIffBeyondTimeout ==
  [][\A s \in Subjects :
       (/\ ReadingFor(s)
        /\ tracked_objects_running_d[s] # 0
        /\ ~SameCoordinates(result'.point, heap[tracked_objects_running_d[s]].position,
                            constrain_to_plane))
       => /\ tracked_objects_running_d'[s] # tracked_objects_running_d[s]
               <=> Abs(result'.timestamp - heap[tracked_objects_running_d[s]].end_timestamp)
                     > seconds_till_new_path
          /\ result'.kind = (IF Abs(result'.timestamp
                                      - heap[tracked_objects_running_d[s]].end_timestamp)
                                  > seconds_till_new_path
                             THEN "break" ELSE "cont")]_vars

\* The first continuation of a segment, by a reading exactly the timeout
\* after the segment's first reading.
C16_Witness ==
  /\ result.kind = "cont"
  /\ result.out = "ok"
  /\ heap[result.ret].number_of_steps = 1
  /\ result.timestamp - heap[result.ret].start_timestamp = seconds_till_new_path
  /\ tracked_objects_running_d[result.subject_id] = result.ret


\* C17 as stated: a reading at most the timeout away from the reading
\* before it for the same subject never replaces the subject's engine.
C17_ConsecutiveReadings ==
  [][\A s \in Subjects :
       (/\ ReadingFor(s)
        /\ tracked_objects_running_d[s] # 0
        /\ Abs(result'.timestamp - prior_timestamp[s]) <= seconds_till_new_path)
       => tracked_objects_running_d'[s] = tracked_objects_running_d[s]]_vars

\* C17, amended: the engine stored for a subject is replaced only when more
\* than the timeout separates the reading from the engine's end_timestamp,
\* which is the timestamp of the subject's last reading that was not
\* suppressed as a duplicate: a suppressed reading leaves the engine as it
\* was, any other reading that returns or raises leaves the stored engine
\* with the reading's timestamp.
C17_SinceLastProcessedReading ==
  [][\A s \in Subjects :
       ReadingFor(s) =>
         /\ (/\ tracked_objects_running_d[s] # 0
             /\ tracked_objects_running_d'[s] # tracked_objects_running_d[s])
            => Abs(result'.timestamp - heap[tracked_objects_running_d[s]].end_timestamp)
                 > seconds_till_new_path
         /\ result'.kind = "dup" =>
              /\ tracked_objects_running_d'[s] = tracked_objects_running_d[s]
              /\ heap' = heap
         /\ (result'.kind # "dup" /\ result'.out # "hang") =>
              heap'[tracked_objects_running_d'[s]].end_timestamp = result'.timestamp]_vars

\* The third call replaced an engine that had taken no step: the reading is
\* more than the timeout after the engine's end_timestamp, with one call,
\* which changed nothing of the engine, between the two.
C17_Witness ==
  /\ result.kind = "break"
  /\ calls = 3
  /\ Len(heap) = 2
  /\ heap[result.prev].number_of_steps = 0
  /\ heap[result.prev].end_timestamp = heap[result.prev].start_timestamp
  /\ result.timestamp - heap[result.prev].end_timestamp > seconds_till_new_path


\* C18: when a reading causes a path break, the engine object stored for
\* the subject before the call keeps every field, and the map entry is a
\* distinct new engine.
C18_WholeValueSwap ==
  [][\A s \in Subjects :
       (ReadingFor(s) /\ result'.kind = "break") =>
         /\ result'.prev = tracked_objects_running_d[s]
         /\ result'.prev \in DOMAIN heap
         /\ heap'[result'.prev] = heap[result'.prev]
         /\ tracked_objects_running_d'[s] # result'.prev
         /\ tracked_objects_running_d'[s] \notin DOMAIN heap
         /\ tracked_objects_running_d'[s] \in DOMAIN heap'
         /\ result'.ret = tracked_objects_running_d'[s]
         /\ \A i \in DOMAIN heap : heap'[i] = heap[i]]_vars

\* A path break whose replaced engine is still there with its step, its
\* length and its second anchor.
C18_Witness ==
  /\ result.kind = "break"
  /\ result.ret # result.prev
  /\ heap[result.prev].number_of_steps = 1
  /\ FLt(FZero, heap[result.prev].real_path_length)
  /\ heap[result.prev].min_sphere_center[2].set
  /\ heap[result.ret].number_of_steps = 0


\* C19: a new engine has 0 steps and length 0; every add_point call on an
\* engine adds 1 to number_of_steps and adds to real_path_length the
\* distance from the previous position to the new point, in space or, when
\* constrain_to_plane is set for the call, in x and y only, so that after n
\* calls there are n steps and the length is the sum of the n distances and
\* never decreases; on an engine not in velocity mode mean_step_size is
\* real_path_length / number_of_steps after the call; no other call changes
\* the count or the length of an engine.
C19_RunningAggregates ==
  [][/\ \A ref \in DOMAIN heap' \ DOMAIN heap :
          heap'[ref].number_of_steps = 0 /\ heap'[ref].real_path_length = FZero
     /\ \A ref \in DOMAIN heap :
          IF ContinuationOf(ref)
          THEN /\ heap'[ref].number_of_steps = heap[ref].number_of_steps + 1
               /\ heap'[ref].real_path_length =
                    FAdd(heap[ref].real_path_length,
                         StepDistance(heap[ref].position, result'.point, constrain_to_plane))
               /\ FLe(heap[ref].real_path_length, heap'[ref].real_path_length)
               /\ ~heap[ref].velocity_mode =>
                    heap'[ref].mean_step_size =
                      FDiv(heap'[ref].real_path_length, FromInt(heap'[ref].number_of_steps))
          ELSE /\ heap'[ref].number_of_steps = heap[ref].number_of_steps
               /\ heap'[ref].real_path_length = heap[ref].real_path_length]_vars

\* A first step taken in the plane between (0,0,5) and (3,4,0): the length
\* and the mean are the xy distance 5, not the distance in space.
C19_Witness ==
  /\ result.kind = "cont"
  /\ result.out = "ok"
  /\ constrain_to_plane
  /\ heap[result.ret].number_of_steps = 1
  /\ ~heap[result.ret].velocity_mode
  /\ heap[result.ret].min_sphere_center[1].p.z # result.point.z
  /\ heap[result.ret].real_path_length = FromInt(5)
  /\ heap[result.ret].mean_step_size = FromInt(5)


\* The number of set slots of a sphere-center list.
SetSlots(centers) == Cardinality({i \in 1..4 : centers[i].set})

\* C20: in every engine the set slots of min_sphere_center are the first k
\* of the four, 1 <= k <= 4, the same slots of max_sphere_center are set,
\* and k = min(4, number_of_steps + 1).
C20_AnchorPrefix ==
  \A ref \in DOMAIN heap :
    /\ \A i \in 1..4 :
         heap[ref].min_sphere_center[i].set <=> i <= SetSlots(heap[ref].min_sphere_center)
    /\ \A i \in 1..4 :
         heap[ref].max_sphere_center[i].set <=> heap[ref].min_sphere_center[i].set
    /\ SetSlots(heap[ref].min_sphere_center) >= 1
    /\ SetSlots(heap[ref].min_sphere_center) =
         IF heap[ref].number_of_steps + 1 < 4 THEN heap[ref].number_of_steps + 1 ELSE 4


(* ------------------------ step sizes and estimates ---------------------- *)

\* C21: in every engine whose multipliers are non-negative, min_step_size
\* and max_step_size are non-negative and are mean_step_size times
\* min_multiplier and mean_step_size times max_multiplier, in normal and in
\* velocity mode and for any order of timestamps.
C21_StepSizes ==
  \A ref \in DOMAIN heap :
    (FLe(FZero, heap[ref].min_multiplier) /\ FLe(FZero, heap[ref].max_multiplier)) =>
      /\ FLe(FZero, heap[ref].min_step_size)
      /\ FLe(FZero, heap[ref].max_step_size)
      /\ heap[ref].min_step_size = FMul(heap[ref].mean_step_size, heap[ref].min_multiplier)
      /\ heap[ref].max_step_size = FMul(heap[ref].mean_step_size, heap[ref].max_multiplier)


\* The latest call was a direct fractal() call that returned; heap[1] is the
\* object before the call and heap[2] the object after it.
FractalReturned == result.kind = "fractal" /\ result.out = "ok"

\* log10 min_scale - log10 max_scale of the latest fractal() call, for
\* positive scales.
ScaleLogDiff == FSub(FLog10(SelectedMinScale), FLog10(SelectedMaxScale))

\* Index i (from 1) contributes an estimate.
Qualifies(i) ==
  /\ FLt(FZero, heap[2].min_path_length[i])
  /\ FLt(FZero, heap[2].max_path_length[i])
  /\ FLt(FZero, SelectedMinScale)
  /\ FLt(FZero, SelectedMaxScale)
  /\ ScaleLogDiff # FZero

\* fd_i = 1 - (log10 minlen_i - log10 maxlen_i) / (log10 min_scale - log10 max_scale)
Estimate(i) ==
  FSub(One, FDiv(FSub(FLog10(heap[2].min_path_length[i]), FLog10(heap[2].max_path_length[i])),
                 ScaleLogDiff))

RECURSIVE EstimateSum(_)
\* The sum of the estimates of the qualifying indices up to i, in index order.
EstimateSum(i) ==
  IF i = 0 THEN FZero
  ELSE IF Qualifies(i) THEN FAdd(EstimateSum(i - 1), Estimate(i))
  ELSE EstimateSum(i - 1)

QualifyingIndices == {i \in 1..4 : Qualifies(i)}

\* C22: after every fractal() call D is the arithmetic mean of the
\* estimates fd_i over exactly the indices with positive min and max
\* accumulators, positive scales and a nonzero scale-log difference; when no
\* index qualifies D is 0.0, whatever it was before the call.
C22_MeanOfEstimates ==
  FractalReturned =>
    heap[2].D = IF QualifyingIndices = {} THEN FZero
                ELSE FDiv(EstimateSum(4), FromInt(Cardinality(QualifyingIndices)))

\* Two of the three indices with nonzero accumulators qualify, with
\* different estimates.
C22_Witness ==
  /\ FractalReturned
  /\ QualifyingIndices = {1, 3}
  /\ Estimate(1) # Estimate(3)
  /\ heap[2].D # FZero
  /\ heap[2].D # heap[1].D


\* C23: when the dispatcher's min_multiplier equals its max_multiplier, D is
\* 0.0 in every engine, whatever readings were fed.
C23_EqualMultipliers ==
  min_multiplier = max_multiplier => \A ref \in DOMAIN heap : heap[ref].D = FZero

\* Equal multipliers and an engine whose two walks have both measured a
\* positive length at the first anchor.
C23_Witness ==
  /\ min_multiplier = max_multiplier
  /\ result.out = "ok"
  /\ \E ref \in DOMAIN heap :
       /\ heap[ref].number_of_steps >= 3
       /\ FLt(FZero, heap[ref].min_path_length[1])
       /\ FLt(FZero, heap[ref].max_path_length[1])
       /\ FLt(FZero, heap[ref].min_step_size)
       /\ heap[ref].D = FZero


(* --------------------- the walks of one add_point call ------------------ *)

\* The point a walk of the step aims at: fractal() walks towards the new
\* position, with z = 0 under the plane constraint.
WalkTarget == Point3D(result'.point.x, result'.point.y, IF constrain_to_plane THEN FZero ELSE result'.point.z)

\* The scales of the min walk and the max walk of a step on the engine ref.
MinWalkScale(ref) == IF heap[ref].velocity_mode THEN heap'[ref].min_step_velocity ELSE heap'[ref].min_step_size

MaxWalkScale(ref) == IF heap[ref].velocity_mode THEN heap'[ref].max_step_velocity ELSE heap'[ref].max_step_size

\* Slot i of a center list when the walks of the step begin: add_point has
\* filled the first unset slot with the new position.
AnchorBefore(centers, i) ==
  IF centers[i].set THEN centers[i]
  ELSE IF i = Cardinality({j \in 1..4 : centers[j].set}) + 1 THEN Center(result'.point)
  ELSE NoCenter

\* A point as the walks of the step take it: with z = 0 under the plane
\* constraint.
InWalkFrame(p) == IF constrain_to_plane THEN Point3D(p.x, p.y, FZero) ELSE p

\* The distance from a center to the target as the walk measures it.
WalkDistance(c) == distance(InWalkFrame(c.p), WalkTarget)

RECURSIVE ScaleSum(_, _)
\* running_total after n hops: scale added n times to 0.0.
ScaleSum(scale, n) == IF n = 0 THEN FZero ELSE FAdd(ScaleSum(scale, n - 1), scale)

\* Index i of one walk made n hops: the accumulator grew by the running
\* total of n hops, and the anchor moved if and only if n > 0.
MadeHops(before, after, len_before, len_after, scale, n) ==
  /\ len_after = FAdd(len_before, ScaleSum(scale, n))
  /\ n = 0 <=> after = before
  /\ n = 0 <=> len_after = len_before

\* The step is an add_point call on the engine ref whose two walks returned.
WalkedOn(ref) == ContinuationOf(ref) /\ result'.out = "ok"

\* C24 as stated: in one calculate_path_length call each index hops at most
\* once: its accumulator grows by at most one scale.
C24_AtMostOneHop ==
  [][\A ref \in DOMAIN heap : \A i \in 1..4 :
       WalkedOn(ref) =>
         /\ \E n \in {0, 1} :
              MadeHops(AnchorBefore(heap[ref].min_sphere_center, i),
                       heap'[ref].min_sphere_center[i],
                       heap[ref].min_path_length[i], heap'[ref].min_path_length[i],
                       MinWalkScale(ref), n)
         /\ \E n \in {0, 1} :
              MadeHops(AnchorBefore(heap[ref].max_sphere_center, i),
                       heap'[ref].max_sphere_center[i],
                       heap[ref].max_path_length[i], heap'[ref].max_path_length[i],
                       MaxWalkScale(ref), n)]_vars

\* The most hops of one index in one call that the property looks for.
MaxHops == 8

\* What one walk with this scale may have done to one index: nothing to an
\* unset index, to any index when scale <= 0, or to an anchor closer to the
\* target than scale; otherwise the accumulator has grown by the running
\* total of some number of additions of scale, and it has grown only if the
\* anchor has come within scale of the target.
HoppedSomeTimes(before, after, len_before, len_after, scale) ==
  /\ \E n \in 0..MaxHops : len_after = FAdd(len_before, ScaleSum(scale, n))
  /\ (~after.set \/ FLe(scale, FZero) \/ FLt(WalkDistance(before), scale)) =>
       (after = before /\ len_after = len_before)
  /\ len_after # len_before => FLe(WalkDistance(after), scale)

\* C24, amended: in one calculate_path_length call each set index hops zero
\* or more times: not at all when its anchor is closer to the target than
\* scale, and otherwise possibly several times, the index being retried
\* while the moved anchor is farther than scale from the target; its
\* accumulator is credited, with the running total of the additions of
\* scale, only when the anchor has come within scale.
C24_ZeroOrMoreHops ==
  [][\A ref \in DOMAIN heap : \A i \in 1..4 :
       WalkedOn(ref) =>
         /\ HoppedSomeTimes(AnchorBefore(heap[ref].min_sphere_center, i),
                            heap'[ref].min_sphere_center[i],
                            heap[ref].min_path_length[i], heap'[ref].min_path_length[i],
                            MinWalkScale(ref))
         /\ HoppedSomeTimes(AnchorBefore(heap[ref].max_sphere_center, i),
                            heap'[ref].max_sphere_center[i],
                            heap[ref].max_path_length[i], heap'[ref].max_path_length[i],
                            MaxWalkScale(ref))]_vars

\* An engine whose first anchor has been credited more than the min scale
\* of its only step that hopped (the second): two hops in one call.
C24_Witness ==
  /\ result.kind = "cont"
  /\ result.out = "ok"
  /\ heap[result.ret].number_of_steps = 2
  /\ FLt(heap[result.ret].min_step_size,
         FSub(heap[result.ret].min_path_length[1], heap[result.ret].min_step_size))


\* |a| for a float.
FAbs(a) == [m |-> Abs(a.m), e |-> a.e]

\* a and b differ by less than 1/256 of scale (the floats of the model
\* carry rounding errors far below that).
NearBy(a, b, scale) == FLt(FAbs(FSub(a, b)), FMul(Lit(1, -8), scale))


(* ------------------------- the end of a walk ---------------------------- *)

WalkCall == result.kind = "calculate_path_length"

\* C26: calculate_path_length terminates for every input: no call is left
\* retrying one index forever.
C26_WalkTerminates == WalkCall => result.out \notin {"hang", "undecided"}


\* The walk of the latest direct call returned.
WalkReturned == WalkCall /\ result.out = "ok"

\* A point as the distance test of the postcondition sees it under the plane
\* flag of the call.
InCallFrame(p) == IF result.args.plane THEN Point3D(p.x, p.y, FZero) ELSE p

\* C27: after calculate_path_length returns for a scale > 0 every set anchor
\* of the list is at distance at most scale from the target point, in the XY
\* plane when constrain_to_plane is set; and no call ends in the division by
\* zero of line_sphere_intersect on a segment of length zero.
C27_WalkPostcondition ==
  /\ (WalkReturned /\ FLt(FZero, result.args.scale)) =>
       \A i \in 1..4 :
         heap[2].min_sphere_center[i].set =>
           FLe(distance(InCallFrame(heap[2].min_sphere_center[i].p),
                        InCallFrame(heap[1].position)),
               result.args.scale)
  /\ WalkCall => result.out # "ZeroDivisionError"

\* The distance from a center to the target of the direct call.
CallDistance(c) == distance(InCallFrame(c.p), heap[1].position)

\* The first index of the walk made n hops with all of them accounted for:
\* an anchor closer to the target than scale made none and stayed;
\* otherwise the anchor ended on the straight line to the target, n times
\* scale from where it was and that much closer to the target; the
\* accumulator grew by the running total of the n hops.
HopsAccounted(before, after, len_before, len_after, scale, n) ==
  /\ len_after = FAdd(len_before, ScaleSum(scale, n))
  /\ FLt(CallDistance(before), scale) => (n = 0 /\ after = before)
  /\ ~FLt(CallDistance(before), scale) =>
       /\ n >= 1
       /\ NearBy(distance(InCallFrame(before.p), InCallFrame(after.p)),
                 ScaleSum(scale, n), scale)
       /\ NearBy(FAdd(CallDistance(after), ScaleSum(scale, n)), CallDistance(before), scale)

\* C25: in one calculate_path_length call with scale > 0, towards a target
\* given in the frame of the walk, a set anchor closer to the target than
\* scale keeps its position and accumulator; otherwise every hop moves the
\* anchor scale closer to the target along the straight line to it, and
\* when the call has returned the accumulator of the index has grown by
\* scale times the number of its hops.
C25_HopAccounting ==
  (WalkReturned /\ FLt(FZero, result.args.scale)
                /\ InCallFrame(heap[1].position) = heap[1].position) =>
    \E n \in 0..MaxHops :
      HopsAccounted(heap[1].min_sphere_center[1], heap[2].min_sphere_center[1],
                    heap[1].min_path_length[1], heap[2].min_path_length[1],
                    result.args.scale, n)


(* --------------------------- velocity mode ------------------------------ *)

AllZero(lengths) == \A i \in 1..4 : lengths[i] = FZero

\* The set slots of a center list hold what they held.
AnchorsKept(before, after) == \A i \in 1..4 : before[i].set => after[i] = before[i]

\* C28: an engine created in velocity mode keeps min_step_velocity and
\* max_step_velocity at 0.0 through every reading, so none of its anchors
\* ever moves from the position it was filled with, its eight path-length
\* accumulators stay 0 and its D is 0.0.
C28_VelocityModeNoEstimate ==
  [][\A ref \in DOMAIN heap' :
       heap'[ref].velocity_mode =>
         /\ heap'[ref].min_step_velocity = FZero
         /\ heap'[ref].max_step_velocity = FZero
         /\ AllZero(heap'[ref].min_path_length)
         /\ AllZero(heap'[ref].max_path_length)
         /\ heap'[ref].D = FZero
         /\ ref \in DOMAIN heap =>
              /\ AnchorsKept(heap[ref].min_sphere_center, heap'[ref].min_sphere_center)
              /\ AnchorsKept(heap[ref].max_sphere_center, heap'[ref].max_sphere_center)]_vars

\* A velocity-mode engine after a step that raised no error, with positive
\* step sizes and its two anchors at two places.
C28_Witness ==
  /\ result.kind = "cont"
  /\ result.out = "ok"
  /\ heap[result.ret].velocity_mode
  /\ heap[result.ret].number_of_steps = 1
  /\ FLt(FZero, heap[result.ret].min_step_size)
  /\ FLt(heap[result.ret].min_step_size, heap[result.ret].max_step_size)
  /\ heap[result.ret].min_sphere_center[2].set
  /\ heap[result.ret].min_sphere_center[1] # heap[result.ret].min_sphere_center[2]


(* ------------------ rtfpa_processor.py: RTFPAProcessor ------------------ *)

\* ProcessingConfig as its defaults give it and as process_file builds it:
\* multipliers 0.5 and 10.0, the plane constraint on, velocity mode off, and
\* a path timeout of 60 or 15 seconds.
ProcessingConfigs ==
  {[min_multiplier |-> Lit(1, -1), max_multiplier |-> FromInt(10),
    constrain_to_plane |-> TRUE, velocity_mode |-> FALSE, path_timeout |-> timeout] :
   timeout \in {60, 15}}

\* RTFPAProcessor.__post_init__: the dispatcher built and set from the
\* configuration, and no results.
InitProcess ==
  \E cfg \in ProcessingConfigs :
    /\ min_multiplier = cfg.min_multiplier
    /\ max_multiplier = cfg.max_multiplier
    /\ constrain_to_plane = cfg.constrain_to_plane
    /\ velocity_mode = cfg.velocity_mode
    /\ seconds_till_new_path = cfg.path_timeout
    /\ tracked_objects_running_d = [s \in Subjects |-> 0]
    /\ heap = <<>>
    /\ result = NoResult("none")
    /\ prior_timestamp = [s \in Subjects |-> 0]
    /\ calls = 0
    /\ results = NoResults

\* The "Store results" lines of process_data for the engine new_reading
\* returned (0 stands for None).
Stored(subject_id, running_d) ==
  [results EXCEPT ![subject_id] =
     [key |-> TRUE,
      list |-> IF running_d # 0 THEN Append(@.list, running_d) ELSE @.list]]

\* One turn of the loop of RTFPAProcessor.process_data, on the next data
\* point of the adapter's stream; an exception of new_reading leaves the
\* loop before anything is stored.
ProcessDataPoint ==
  /\ calls < MaxCalls
  /\ \E s \in NextSubjects, pt \in Points, t \in Times :
       /\ new_reading(s, pt, t)
       /\ results' = IF result'.out = "ok" THEN Stored(s, result'.ret) ELSE results

SpecProcess == InitProcess /\ [][ProcessDataPoint]_vars

\* RTFPAProcessor.get_time_series: one row for each element of the list.
get_time_series(subject_id) ==
  IF ~results[subject_id].key THEN <<>>
  ELSE [i \in 1..Len(results[subject_id].list) |->
          [subject_id      |-> heap[results[subject_id].list[i]].subject_id,
           start_timestamp |-> heap[results[subject_id].list[i]].start_timestamp,
           end_timestamp   |-> heap[results[subject_id].list[i]].end_timestamp,
           D               |-> heap[results[subject_id].list[i]].D,
           steps           |-> heap[results[subject_id].list[i]].number_of_steps]]

\* The path segments of a subject so far: the engines created for it.
PathSegments(s) == {ref \in DOMAIN heap : heap[ref].subject_id = s}

\* C29: process_data appends an engine to results[subject_id] once per path
\* segment: the list of a subject and its time series are as long as the
\* subject has path segments.
C29_OncePerSegment ==
  \A s \in Subjects :
    /\ Len(results[s].list) = Cardinality(PathSegments(s))
    /\ Len(get_time_series(s)) = Cardinality(PathSegments(s))


(* --------------- the two scale passes of the simple estimate ------------ *)

RECURSIVE PathLength(_, _)
\* The sum of the first n consecutive segment lengths of a path, added in
\* path order.
PathLength(path_points, n) ==
  IF n = 0 THEN FZero
  ELSE FAdd(PathLength(path_points, n - 1), distance(path_points[n], path_points[n + 1]))

\* A call on a path of at least two points with positive total length and
\* two distinct positive scales has ended.
ValidSimple ==
  /\ IsSimple
  /\ Len(result.args.path_points) >= 2
  /\ FLt(FZero, PathLength(result.args.path_points, Len(result.args.path_points) - 1))
  /\ FLt(FZero, result.args.min_scale)
  /\ FLt(FZero, result.args.max_scale)
  /\ result.args.min_scale # result.args.max_scale

====
